---- MODULE Spec2Model ----
(***************************************************************************)
(* A model of pycococreatortools.py: the conversion of a 2D binary mask    *)
(* into COCO annotation geometry (uncompressed RLE, polygons) and the      *)
(* single- and multi-instance annotation builders.                         *)
(*                                                                         *)
(* A mask is a record [shape |-> <<height, width>>, fg |-> S] where S is   *)
(* the set of <<row, col>> (0-based) of its foreground (True) pixels.      *)
(* Contour coordinates are multiples of 0.5; the model stores every        *)
(* contour and polygon coordinate doubled, so that -1 stands for -0.5.     *)
(***************************************************************************)
EXTENDS Integers, Sequences, FiniteSets, TLC

\* ------------------------------------------------------------------ bounds
\* Grids of the annotation builders have at most MaxRows rows, MaxCols
\* columns and MaxCells pixels; every such grid is enumerated.
MaxRows == 3
MaxCols == 3
MaxCells == 9
\* Grids of the run-length encoder: every grid of at most MaxRleCells pixels,
\* and every grid of at most MaxBlockSide x MaxBlockSide pixels whose
\* foreground is one rectangular block.
MaxRleCells == 8
MaxBlockSide == 4
\* Tolerances of binary_mask_to_polygon are 0 .. MaxTolerance.
MaxTolerance == 2
\* Resize targets (width, height) have at most MaxResizeCells pixels.
MaxResizeCells == 2

\* ------------------------------------------------------------------ masks
Cells(h, w) == (0 .. h - 1) \X (0 .. w - 1)

Mask(h, w, S) == [shape |-> <<h, w>>, fg |-> S]

Height(m) == m.shape[1]
Width(m) == m.shape[2]

\* every boolean grid of shape h x w
AllMasks(h, w) == { Mask(h, w, S) : S \in SUBSET Cells(h, w) }

\* the grids of shape h x w whose foreground is one rectangular block
BlockMasks(h, w) ==
    { Mask(h, w, (r0 .. r1) \X (c0 .. c1)) :
        <<r0, r1, c0, c1>> \in
            { q \in (0 .. h - 1) \X (0 .. h - 1) \X (0 .. w - 1) \X (0 .. w - 1) :
                q[1] <= q[2] /\ q[3] <= q[4] } }

AnnotationMasks ==
    UNION { AllMasks(h, w) :
              <<h, w>> \in { s \in (1 .. MaxRows) \X (1 .. MaxCols) :
                               s[1] * s[2] <= MaxCells } }

RleMasks ==
    UNION { AllMasks(h, w) :
              <<h, w>> \in { s \in (1 .. MaxRleCells) \X (1 .. MaxRleCells) :
                               s[1] * s[2] <= MaxRleCells } }
    \cup
    UNION { BlockMasks(h, w) : <<h, w>> \in (1 .. MaxBlockSide) \X (1 .. MaxBlockSide) }

\* ------------------------------------------------------------------ binary_mask_to_rle
\* binary_mask.ravel(order='F'): the pixels as 0/1, column after column
ravel_C(m) ==
    [k \in 1 .. Height(m) * Width(m) |->
        IF <<(k - 1) \div Width(m), (k - 1) % Width(m)>> \in m.fg THEN 1 ELSE 0]

ravel_F(m) ==
    [k \in 1 .. Height(m) * Width(m) |->
        IF <<(k - 1) % Height(m), (k - 1) \div Height(m)>> \in m.fg THEN 1 ELSE 0]

\* itertools.groupby: the maximal runs of equal values as <<value, length>>
RECURSIVE groupby_from(_, _, _)
groupby_from(s, i, acc) ==
    IF i > Len(s) THEN acc
    ELSE IF acc # <<>> /\ acc[Len(acc)][1] = s[i]
         THEN groupby_from(s, i + 1,
                  [acc EXCEPT ![Len(acc)] = <<s[i], acc[Len(acc)][2] + 1>>])
         ELSE groupby_from(s, i + 1, Append(acc, <<s[i], 1>>))

groupby(s) == groupby_from(s, 1, <<>>)

\* one pass of the loop body for the i-th group (i counted from 0)
rle_step_always_zero(counts, i, group) ==
    IF i = 0
    THEN Append(Append(counts, 0), group[2])
    ELSE Append(counts, group[2])

rle_step_no_zero(counts, i, group) == Append(counts, group[2])

rle_step(counts, i, group) ==
    IF i = 0 /\ group[1] = 1
    THEN Append(Append(counts, 0), group[2])
    ELSE Append(counts, group[2])

RECURSIVE rle_loop(_, _, _)
rle_loop(groups, i, counts) ==
    IF i >= Len(groups) THEN counts
    ELSE rle_loop(groups, i + 1, rle_step(counts, i, groups[i + 1]))

rle_size_swapped(m) ==
    [counts |-> rle_loop(groupby(ravel_F(m)), 0, <<>>), size |-> <<Width(m), Height(m)>>]

binary_mask_to_rle(m) ==
    [counts |-> rle_loop(groupby(ravel_F(m)), 0, <<>>), size |-> m.shape]

\* ------------------------------------------------------------------ resize_binary_mask
\* Image.fromarray(...).resize(new_size) with new_size = (width, height):
\* output pixel (r, c) samples the input pixel under its centre, which is
\* what Pillow's nearest-neighbour filter does (the default filter of
\* Image.resize for this image mode when the module was written; a resize to
\* the size the mask already has returns it unchanged under every filter);
\* astype(bool) keeps 255 as True.
resize_binary_mask(array, new_size) ==
    Mask(new_size[2], new_size[1],
         { p \in Cells(new_size[2], new_size[1]) :
             << ((2 * p[1] + 1) * Height(array)) \div (2 * new_size[2]),
                ((2 * p[2] + 1) * Width(array)) \div (2 * new_size[1]) >> \in array.fg })

\* ------------------------------------------------------------------ find_contours
\* np.pad(binary_mask, pad_width=1, constant_values=0)
pad(m) == Mask(Height(m) + 2, Width(m) + 2, { <<p[1] + 1, p[2] + 1>> : p \in m.fg })

\* the value of a pixel is above the level 0.5
above(m, r, c) == <<r, c>> \in m.fg

\* the segments marching squares draws in the square whose upper left pixel
\* is (r0, c0), fully_connected='low'; points are <<2*row, 2*col>>
square_segments(m, r0, c0) ==
    LET r1 == r0 + 1
        c1 == c0 + 1
        square_case == (IF above(m, r0, c0) THEN 1 ELSE 0)
                     + (IF above(m, r0, c1) THEN 2 ELSE 0)
                     + (IF above(m, r1, c0) THEN 4 ELSE 0)
                     + (IF above(m, r1, c1) THEN 8 ELSE 0)
        top == <<2 * r0, 2 * c0 + 1>>
        bottom == <<2 * r1, 2 * c0 + 1>>
        left == <<2 * r0 + 1, 2 * c0>>
        right == <<2 * r0 + 1, 2 * c1>>
    IN  CASE square_case = 1 -> << <<top, left>> >>
          [] square_case = 2 -> << <<right, top>> >>
          [] square_case = 3 -> << <<right, left>> >>
          [] square_case = 4 -> << <<left, bottom>> >>
          [] square_case = 5 -> << <<top, bottom>> >>
          [] square_case = 6 -> << <<right, top>>, <<left, bottom>> >>
          [] square_case = 7 -> << <<right, bottom>> >>
          [] square_case = 8 -> << <<bottom, right>> >>
          [] square_case = 9 -> << <<top, left>>, <<bottom, right>> >>
          [] square_case = 10 -> << <<bottom, top>> >>
          [] square_case = 11 -> << <<bottom, left>> >>
          [] square_case = 12 -> << <<left, right>> >>
          [] square_case = 13 -> << <<top, right>> >>
          [] square_case = 14 -> << <<left, top>> >>
          [] OTHER -> << >>

\* the segments of all squares, rows first, columns within a row
RECURSIVE contour_segments(_, _)
contour_segments(m, k) ==
    IF k >= (Height(m) - 1) * (Width(m) - 1) THEN << >>
    ELSE square_segments(m, k \div (Width(m) - 1), k % (Width(m) - 1))
         \o contour_segments(m, k + 1)

\* dictionaries from a point to the number of a contour, as sets of pairs
dict_has(d, p) == \E e \in d : e[1] = p
dict_get(d, p) == (CHOOSE e \in d : e[1] = p)[2]
dict_pop(d, p) == { e \in d : e[1] # p }
dict_set(d, p, n) == dict_pop(d, p) \cup { <<p, n>> }

\* one segment joins the contours assembled so far; contours[n + 1] is the
\* contour number n, << >> once it was merged into another one
assemble_segment(st, seg) ==
    LET from_point == seg[1]
        to_point == seg[2]
        has_tail == dict_has(st.starts, to_point)
        has_head == dict_has(st.ends, from_point)
        tail_num == IF has_tail THEN dict_get(st.starts, to_point) ELSE -1
        head_num == IF has_head THEN dict_get(st.ends, from_point) ELSE -1
        starts == dict_pop(st.starts, to_point)
        ends == dict_pop(st.ends, from_point)
        tail == st.contours[tail_num + 1]
        head == st.contours[head_num + 1]
    IN  IF has_tail /\ has_head
        THEN IF tail_num = head_num
             THEN [contours |-> [st.contours EXCEPT ![head_num + 1] = Append(head, to_point)],
                   starts |-> starts, ends |-> ends]
             ELSE IF tail_num > head_num
             THEN [contours |-> [st.contours EXCEPT ![head_num + 1] = head \o tail,
                                                     ![tail_num + 1] = << >>],
                   starts |-> dict_set(starts, head[1], head_num),
                   ends |-> dict_set(ends, tail[Len(tail)], head_num)]
             ELSE [contours |-> [st.contours EXCEPT ![tail_num + 1] = head \o tail,
                                                     ![head_num + 1] = << >>],
                   starts |-> dict_set(dict_pop(starts, head[1]), head[1], tail_num),
                   ends |-> dict_set(ends, tail[Len(tail)], tail_num)]
        ELSE IF ~has_tail /\ ~has_head
        THEN [contours |-> Append(st.contours, <<from_point, to_point>>),
              starts |-> dict_set(starts, from_point, Len(st.contours)),
              ends |-> dict_set(ends, to_point, Len(st.contours))]
        ELSE IF ~has_head
        THEN [contours |-> [st.contours EXCEPT ![tail_num + 1] = <<from_point>> \o tail],
              starts |-> dict_set(starts, from_point, tail_num),
              ends |-> ends]
        ELSE [contours |-> [st.contours EXCEPT ![head_num + 1] = Append(head, to_point)],
              starts |-> starts,
              ends |-> dict_set(ends, to_point, head_num)]

RECURSIVE assemble_contours(_, _, _)
assemble_contours(segments, i, st) ==
    IF i > Len(segments) THEN SelectSeq(st.contours, LAMBDA c : c # << >>)
    ELSE assemble_contours(segments, i + 1, assemble_segment(st, segments[i]))

\* measure.find_contours(array, 0.5) of a binary array
find_contours(m) ==
    assemble_contours(contour_segments(m, 0), 1,
                      [contours |-> << >>, starts |-> {}, ends |-> {}])

\* ------------------------------------------------------------------ approximate_polygon
Sq(x) == x * x
Min(a, b) == IF a <= b THEN a ELSE b

\* The distance of coords[i] to the segment coords[start] .. coords[end], as
\* approximate_polygon computes it (perpendicular distance when the point
\* projects inside the segment, else the distance to the nearer end),
\* squared and multiplied by segment_scale so that it stays an integer.
segment_scale(coords, start, end) ==
    LET l2 == Sq(coords[end][1] - coords[start][1]) + Sq(coords[end][2] - coords[start][2])
    IN  IF l2 = 0 THEN 1 ELSE l2

segment_dist(coords, start, end, i) ==
    LET r0 == coords[start][1]
        c0 == coords[start][2]
        r1 == coords[end][1]
        c1 == coords[end][2]
        dr == r1 - r0
        dc == c1 - c0
        dr0 == coords[i][1] - r0
        dc0 == coords[i][2] - c0
        dr1 == coords[i][1] - r1
        dc1 == coords[i][2] - c1
        perp == (dr0 * dr + dc0 * dc > 0) /\ (0 - dr1 * dr - dc1 * dc > 0)
    IN  IF perp
        THEN Sq(dr0 * dc - dc0 * dr)
        ELSE Min(Sq(dc0) + Sq(dr0), Sq(dc1) + Sq(dr1)) * segment_scale(coords, start, end)

\* np.any(segment_dists > tolerance); coordinates are doubled, so is the tolerance
any_above(coords, tolerance, start, end) ==
    \E i \in start + 1 .. end - 1 :
        segment_dist(coords, start, end, i)
            > Sq(2 * tolerance) * segment_scale(coords, start, end)

\* start + np.argmax(segment_dists) + 1: the first point at maximal distance
argmax_dist(coords, start, end) ==
    CHOOSE i \in start + 1 .. end - 1 :
        /\ \A j \in start + 1 .. end - 1 :
               segment_dist(coords, start, end, j) <= segment_dist(coords, start, end, i)
        /\ \A j \in start + 1 .. i - 1 :
               segment_dist(coords, start, end, j) < segment_dist(coords, start, end, i)

\* the points the stack loop adds to the chain between start and end
RECURSIVE chain_between(_, _, _, _)
chain_between(coords, tolerance, start, end) ==
    IF any_above(coords, tolerance, start, end)
    THEN LET new_end == argmax_dist(coords, start, end)
         IN  {new_end} \cup chain_between(coords, tolerance, start, new_end)
                       \cup chain_between(coords, tolerance, new_end, end)
    ELSE {}

RECURSIVE select_chain(_, _, _)
select_chain(coords, chain, i) ==
    IF i > Len(coords) THEN << >>
    ELSE (IF i \in chain THEN <<coords[i]>> ELSE << >>) \o select_chain(coords, chain, i + 1)

approximate_polygon(coords, tolerance) ==
    IF tolerance <= 0 THEN coords
    ELSE select_chain(coords,
                      {1, Len(coords)} \cup chain_between(coords, tolerance, 1, Len(coords)),
                      1)

\* ------------------------------------------------------------------ binary_mask_to_polygon
close_contour(contour) ==
    IF contour[1] # contour[Len(contour)] THEN Append(contour, contour[1]) ELSE contour

\* np.subtract(contours, 1), on doubled coordinates
subtract_one(contour) == [i \in 1 .. Len(contour) |-> <<contour[i][1] - 2, contour[i][2] - 2>>]

\* np.flip(contour, axis=1) followed by ravel().tolist()
flip_ravel(contour) ==
    [k \in 1 .. 2 * Len(contour) |->
        IF k % 2 = 1 THEN contour[(k + 1) \div 2][2] ELSE contour[k \div 2][1]]

\* [0 if i < 0 else i for i in segmentation]
clamp(segmentation) ==
    [k \in 1 .. Len(segmentation) |-> IF segmentation[k] < 0 THEN 0 ELSE segmentation[k]]

\* the contour is dropped: len(contour) < 3
too_short_below_two(contour) == Len(contour) < 2

too_short(contour) == Len(contour) < 3

\* one pass of the loop over the contours: the polygons with this contour's added
polygon_step(polygons, raw_contour, tolerance) ==
    LET contour == approximate_polygon(close_contour(raw_contour), tolerance)
    IN  IF too_short(contour) THEN polygons
        ELSE Append(polygons, clamp(flip_ravel(contour)))

RECURSIVE polygon_loop(_, _, _, _)
polygon_loop(contours, i, polygons, tolerance) ==
    IF i > Len(contours) THEN polygons
    ELSE polygon_loop(contours, i + 1,
                      polygon_step(polygons, subtract_one(contours[i]), tolerance),
                      tolerance)

binary_mask_to_polygon(m, tolerance) ==
    polygon_loop(find_contours(pad(m)), 1, << >>, tolerance)

\* ------------------------------------------------------------------ pycocotools.mask
\* mask.area(mask.encode(...)): the number of foreground pixels
area(m) == Cardinality(m.fg)

SetMin(S) == CHOOSE x \in S : \A y \in S : x <= y
SetMax(S) == CHOOSE x \in S : \A y \in S : y <= x

Rows(S) == { p[1] : p \in S }
Cols(S) == { p[2] : p \in S }

\* mask.toBbox(mask.encode(...)): [x, y, width, height] of the foreground
toBbox(m) ==
    IF m.fg = {} THEN <<0, 0, 0, 0>>
    ELSE << SetMin(Cols(m.fg)), SetMin(Rows(m.fg)),
            SetMax(Cols(m.fg)) - SetMin(Cols(m.fg)) + 1,
            SetMax(Rows(m.fg)) - SetMin(Rows(m.fg)) + 1 >>

\* ------------------------------------------------------------------ create_annotation_info
\* Python's None
None == [none |-> TRUE]

\* an optional argument left at None is the empty tuple
NotGiven == << >>

\* "is_crowd" in category_info and category_info["is_crowd"]
crowd_never(category_info) == FALSE

is_crowd_category(category_info) ==
    "is_crowd" \in DOMAIN category_info /\ category_info["is_crowd"]

\* the mask after the optional resize
resized(m, image_size) ==
    IF image_size # NotGiven THEN resize_binary_mask(m, image_size) ELSE m

\* area < 1
area_too_small(a) == a < 1

\* not segmentation
never_dropped(segmentation) == FALSE

no_polygons(segmentation) == segmentation = << >>

\* the crowd branch: the flag and the segmentation; the segmentation carries
\* its Python type, a dict for an RLE record and a list for polygons
crowd_segmentation_flag_zero(m) ==
    [iscrowd |-> 0, segmentation |-> [type |-> "dict", value |-> binary_mask_to_rle(m)]]

crowd_segmentation(m) ==
    [iscrowd |-> 1, segmentation |-> [type |-> "dict", value |-> binary_mask_to_rle(m)]]

polygon_segmentation(m, tolerance) ==
    [iscrowd |-> 0,
     segmentation |-> [type |-> "list", value |-> binary_mask_to_polygon(m, tolerance)]]

create_annotation_info(annotation_id, img_id, category, m0, size, tol, bounding_box) ==
    LET m == resized(m0, size)
        a == area(m)
        bbox == IF bounding_box = NotGiven THEN toBbox(m) ELSE bounding_box
        seg == IF is_crowd_category(category)
               THEN crowd_segmentation(m)
               ELSE polygon_segmentation(m, tol)
    IN  IF area_too_small(a) THEN None
        ELSE IF ~is_crowd_category(category) /\ no_polygons(seg.segmentation.value)
        THEN None
        ELSE [id |-> annotation_id,
              image_id |-> img_id,
              category_id |-> category["id"],
              iscrowd |-> seg.iscrowd,
              area |-> a,
              bbox |-> bbox,
              segmentation |-> seg.segmentation,
              width |-> Width(m),
              height |-> Height(m)]

\* ------------------------------------------------------------------ measure.label, regionprops
\* two pixels are neighbours: connectivity 1 joins pixels sharing an edge,
\* connectivity 2 and None (written 0) also those sharing a corner
Abs(x) == IF x < 0 THEN 0 - x ELSE x

neighbours(p, q, connectivity) ==
    /\ p # q
    /\ Abs(p[1] - q[1]) <= 1
    /\ Abs(p[2] - q[2]) <= 1
    /\ (connectivity = 1 => Abs(p[1] - q[1]) + Abs(p[2] - q[2]) = 1)

RECURSIVE grow(_, _, _)
grow(S, fg, connectivity) ==
    LET T == S \cup { q \in fg : \E p \in S : neighbours(p, q, connectivity) }
    IN  IF T = S THEN S ELSE grow(T, fg, connectivity)

\* the regions in the order of their labels: label k + 1 goes to the k-th
\* region met when the pixels are scanned row after row
RECURSIVE label_scan(_, _, _, _)
label_scan(m, connectivity, k, regions) ==
    IF k >= Height(m) * Width(m) THEN regions
    ELSE LET p == <<k \div Width(m), k % Width(m)>>
         IN  IF p \in m.fg /\ (\A i \in 1 .. Len(regions) : p \notin regions[i])
             THEN label_scan(m, connectivity, k + 1,
                             Append(regions, grow({p}, m.fg, connectivity)))
             ELSE label_scan(m, connectivity, k + 1, regions)

label(m, connectivity) == label_scan(m, connectivity, 0, << >>)

\* r.bbox: (min_row, min_col, max_row, max_col), the maxima exclusive
region_bbox(region) ==
    << SetMin(Rows(region)), SetMin(Cols(region)),
       SetMax(Rows(region)) + 1, SetMax(Cols(region)) + 1 >>

\* ------------------------------------------------------------------ create_annotation_infos
\* a zero mask with the pixels of the bounding box copied from binary_mask
region_mask(m, region) ==
    LET bbox == region_bbox(region)
    IN  Mask(Height(m), Width(m),
             { p \in m.fg : /\ bbox[1] <= p[1] /\ p[1] < bbox[3]
                            /\ bbox[2] <= p[2] /\ p[2] < bbox[4] })

region_masks(m, connectivity) ==
    LET regions == label(m, connectivity)
    IN  [k \in 1 .. Len(regions) |-> region_mask(m, regions[k])]

\* ------------------------------------------------------------------ state
VARIABLES
    pc,                   \* position of the call under way
    input_mask,           \* the mask the caller passes
    binary_mask,          \* the local binary_mask, rebound by the resize
    category_info,
    image_size,           \* (width, height), or NotGiven
    tolerance,
    connectivity,         \* 1, 2, or 0 for None
    bounding_box,         \* [x, y, width, height], or NotGiven
    start_annotation_id,  \* annotation_id of a single-instance call
    image_id,
    rle,                  \* returned by binary_mask_to_rle
    polygons,             \* returned by binary_mask_to_polygon
    annotation_info,      \* returned by create_annotation_info
    binary_masks,         \* the per-region masks of create_annotation_infos
    annotation_infos,     \* the list create_annotation_infos builds
    error                 \* the exception raised, "" if none

args == <<input_mask, category_info, image_size, tolerance, connectivity,
          bounding_box, start_annotation_id, image_id>>
results == <<rle, polygons, annotation_info, binary_masks, annotation_infos, error>>
vars == <<pc, binary_mask, args, results>>

NoRle == [counts |-> << >>, size |-> <<0, 0>>]

NoResults ==
    /\ rle = NoRle
    /\ polygons = << >>
    /\ annotation_info = None
    /\ binary_masks = << >>
    /\ annotation_infos = << >>
    /\ error = ""

\* ------------------------------------------------------------------ the run-length encoder
InitRle ==
    /\ pc = "rle_call"
    /\ input_mask \in RleMasks
    /\ binary_mask = input_mask
    /\ category_info = [id |-> 1]
    /\ image_size = NotGiven
    /\ tolerance = 0
    /\ connectivity = 0
    /\ bounding_box = NotGiven
    /\ start_annotation_id = 0
    /\ image_id = 1
    /\ NoResults

BinaryMaskToRle ==
    /\ pc = "rle_call"
    /\ rle' = binary_mask_to_rle(binary_mask)
    /\ pc' = "rle_done"
    /\ UNCHANGED <<binary_mask, args, polygons, annotation_info, binary_masks,
                   annotation_infos, error>>

NextRle == BinaryMaskToRle

SpecRle == InitRle /\ [][NextRle]_vars

\* ------------------------------------------------------------------ the polygon tracer
InitPolygon ==
    /\ pc = "polygon_call"
    /\ input_mask \in AnnotationMasks
    /\ binary_mask = input_mask
    /\ category_info = [id |-> 1]
    /\ image_size = NotGiven
    /\ tolerance \in 0 .. MaxTolerance
    /\ connectivity = 0
    /\ bounding_box = NotGiven
    /\ start_annotation_id = 0
    /\ image_id = 1
    /\ NoResults

BinaryMaskToPolygon ==
    /\ pc = "polygon_call"
    /\ polygons' = binary_mask_to_polygon(binary_mask, tolerance)
    /\ pc' = "polygon_done"
    /\ UNCHANGED <<binary_mask, args, rle, annotation_info, binary_masks,
                   annotation_infos, error>>

NextPolygon == BinaryMaskToPolygon

SpecPolygon == InitPolygon /\ [][NextPolygon]_vars

\* ------------------------------------------------------------------ the annotation builders
\* category_info without the key, with is_crowd False, with is_crowd True
CategoryInfos ==
    { [id |-> 1], [id |-> 1, is_crowd |-> FALSE], [id |-> 1, is_crowd |-> TRUE] }

ImageSizes ==
    {NotGiven} \cup { s \in (1 .. MaxResizeCells) \X (1 .. MaxResizeCells) :
                        s[1] * s[2] <= MaxResizeCells }

\* the ids a caller starts from
StartIds == {0, 1}

\* the default tolerance of both builders
DefaultTolerance == 2

Init ==
    /\ pc \in {"info_call", "infos_call"}
    /\ input_mask \in AnnotationMasks
    /\ binary_mask = input_mask
    /\ category_info \in CategoryInfos
    /\ image_size \in ImageSizes
    /\ tolerance \in {0, DefaultTolerance}
    /\ connectivity \in IF pc = "infos_call" THEN {0, 1, 2} ELSE {0}
    /\ bounding_box \in IF pc = "info_call" THEN {NotGiven, <<0, 0, 1, 1>>} ELSE {NotGiven}
    /\ start_annotation_id \in StartIds
    /\ image_id = 1
    /\ NoResults

\* create_annotation_info, called by the user
CreateAnnotationInfo ==
    /\ pc = "info_call"
    /\ binary_mask' = resized(binary_mask, image_size)
    /\ annotation_info' = create_annotation_info(start_annotation_id, image_id,
                              category_info, binary_mask, image_size, tolerance,
                              bounding_box)
    /\ pc' = "info_done"
    /\ UNCHANGED <<args, rle, polygons, binary_masks, annotation_infos, error>>

\* create_annotation_infos: crowd category info is rejected
InfosRaise ==
    /\ pc = "infos_call"
    /\ is_crowd_category(category_info)
    /\ error' = "NotImplementedError"
    /\ pc' = "infos_raised"
    /\ UNCHANGED <<binary_mask, args, rle, polygons, annotation_info, binary_masks,
                   annotation_infos>>

\* create_annotation_infos: the optional resize
InfosResize ==
    /\ pc = "infos_call"
    /\ ~is_crowd_category(category_info)
    /\ binary_mask' = resized(binary_mask, image_size)
    /\ pc' = "infos_label"
    /\ UNCHANGED <<args, results>>

\* create_annotation_infos: labelling and one mask per region
InfosLabel ==
    /\ pc = "infos_label"
    /\ binary_masks' = region_masks(binary_mask, connectivity)
    /\ pc' = "infos_annotate"
    /\ UNCHANGED <<binary_mask, args, rle, polygons, annotation_info,
                   annotation_infos, error>>

\* create_annotation_infos: one pass of the loop over binary_masks
InfosAnnotate ==
    /\ pc = "infos_annotate"
    /\ Len(annotation_infos) < Len(binary_masks)
    /\ annotation_infos' =
           Append(annotation_infos,
                  create_annotation_info(start_annotation_id + Len(annotation_infos),
                      image_id, category_info, binary_masks[Len(annotation_infos) + 1],
                      image_size, tolerance, NotGiven))
    /\ UNCHANGED <<pc, binary_mask, args, rle, polygons, annotation_info,
                   binary_masks, error>>

\* create_annotation_infos: the loop is over, the list is returned
InfosReturn ==
    /\ pc = "infos_annotate"
    /\ Len(annotation_infos) = Len(binary_masks)
    /\ pc' = "infos_done"
    /\ UNCHANGED <<binary_mask, args, results>>

Next ==
    \/ CreateAnnotationInfo
    \/ InfosRaise
    \/ InfosResize
    \/ InfosLabel
    \/ InfosAnnotate
    \/ InfosReturn

Spec == Init /\ [][Next]_vars

\* ================================================================== claims
\* ------------------------------------------------------------------ the run-length encoder
\* the sum of a sequence of counts
RECURSIVE SumSeq(_)
SumSeq(q) == IF q = << >> THEN 0 ELSE q[1] + SumSeq(Tail(q))

\* the value of the k-th pixel (k from 1) of the expansion of counts: runs
\* alternate background, foreground, ... starting with background
RECURSIVE PixelOf(_, _, _)
PixelOf(counts, k, value) ==
    IF counts = << >> THEN 2
    ELSE IF k <= counts[1] THEN value
    ELSE PixelOf(Tail(counts), k - counts[1], 1 - value)

\* the grid of shape r.size that the counts fill column after column
Decode(r) ==
    Mask(r.size[1], r.size[2],
         { p \in Cells(r.size[1], r.size[2]) :
             PixelOf(r.counts, p[2] * r.size[1] + p[1] + 1, 0) = 1 })

\* C1: decoding the record binary_mask_to_rle returns (counts expanded
\* alternately from background, column-major, into a grid of shape size)
\* gives back the input grid.
C1_RleRoundTrip ==
    pc = "rle_done" =>
        /\ SumSeq(rle.counts) = rle.size[1] * rle.size[2]
        /\ Decode(rle) = binary_mask

C1_Witness ==
    /\ pc = "rle_done"
    /\ Height(binary_mask) # Width(binary_mask)
    /\ Len(rle.counts) >= 4
    /\ rle.counts[1] = 0

\* C5: the counts of the record sum to height * width and size is
\* (height, width) of the input grid.
C5_RleSum ==
    pc = "rle_done" =>
        /\ SumSeq(rle.counts) = Height(binary_mask) * Width(binary_mask)
        /\ rle.size = <<Height(binary_mask), Width(binary_mask)>>

C5_Witness ==
    /\ pc = "rle_done"
    /\ Height(binary_mask) = 2
    /\ Width(binary_mask) = 3
    /\ Len(rle.counts) >= 3

\* C6: when the first pixel in column-major order is foreground the first
\* count is 0, and every count after the first is at least 1.
C6_LeadingZero ==
    pc = "rle_done" =>
        /\ (<<0, 0>> \in binary_mask.fg => rle.counts[1] = 0)
        /\ \A k \in 2 .. Len(rle.counts) : rle.counts[k] >= 1

C6_Witness ==
    /\ pc = "rle_done"
    /\ <<0, 0>> \in binary_mask.fg
    /\ Len(rle.counts) >= 3

\* the 4x4 grid whose foreground is the 2x2 block at rows 1-2, columns 1-2
BlockGrid == Mask(4, 4, (1 .. 2) \X (1 .. 2))

\* C7 as claimed: the 4x4 grid with the 2x2 block at rows 1-2, columns 1-2
\* is encoded as counts [5,2,5,2,2] with size [4,4].
C7_Original ==
    (pc = "rle_done" /\ binary_mask = BlockGrid) =>
        /\ rle.counts = <<5, 2, 5, 2, 2>>
        /\ rle.size = <<4, 4>>

\* C7 as amended: the 4x4 grid with the 2x2 block at rows 1-2, columns 1-2
\* is encoded as counts [5,2,2,2,5] with size [4,4].
C7_BlockCounts ==
    (pc = "rle_done" /\ binary_mask = BlockGrid) =>
        /\ rle.counts = <<5, 2, 2, 2, 5>>
        /\ rle.size = <<4, 4>>

C7_Witness ==
    /\ pc = "rle_done"
    /\ binary_mask = BlockGrid
    /\ Len(rle.counts) = 5

\* ------------------------------------------------------------------ the polygon tracer
\* the contours of the mask after closing and simplification, not yet filtered
RECURSIVE SimplifiedFrom(_, _, _)
SimplifiedFrom(contours, i, tol) ==
    IF i > Len(contours) THEN << >>
    ELSE <<approximate_polygon(close_contour(subtract_one(contours[i])), tol)>>
         \o SimplifiedFrom(contours, i + 1, tol)

Simplified(m, tol) == SimplifiedFrom(find_contours(pad(m)), 1, tol)

\* the x, y values of a contour of (row, col) points, negative values as 0
Flattened(contour) ==
    [k \in 1 .. 2 * Len(contour) |->
        LET v == IF k % 2 = 1 THEN contour[(k + 1) \div 2][2] ELSE contour[k \div 2][1]
        IN  IF v < 0 THEN 0 ELSE v]

\* C9: every polygon binary_mask_to_polygon returns has even length >= 6 and
\* no negative value; the polygons are the contours that keep 3 points or more
\* after closing and simplification, in order, with only their negative
\* values replaced by 0.
C9_PolygonValid ==
    pc = "polygon_done" =>
        /\ \A i \in 1 .. Len(polygons) :
               /\ Len(polygons[i]) % 2 = 0
               /\ Len(polygons[i]) >= 6
               /\ \A k \in 1 .. Len(polygons[i]) : polygons[i][k] >= 0
        /\ LET kept == SelectSeq(Simplified(binary_mask, tolerance),
                                 LAMBDA c : Len(c) >= 3)
           IN  polygons = [i \in 1 .. Len(kept) |-> Flattened(kept[i])]

\* a contour was dropped, another was kept and had a negative value clamped
C9_Witness ==
    /\ pc = "polygon_done"
    /\ tolerance > 0
    /\ Len(polygons) >= 1
    /\ Len(polygons) < Len(Simplified(binary_mask, tolerance))
    /\ \E c \in { Simplified(binary_mask, tolerance)[i] :
                    i \in 1 .. Len(Simplified(binary_mask, tolerance)) } :
           Len(c) >= 3 /\ \E k \in 1 .. Len(c) : c[k][1] < 0 \/ c[k][2] < 0

\* ------------------------------------------------------------------ the annotation builders
\* category_info has a true is_crowd
CrowdFlag(info) == "is_crowd" \in DOMAIN info /\ info["is_crowd"] = TRUE

\* the mask a call encodes: the input, resized when a target is given
Encoded == IF image_size = NotGiven THEN input_mask
           ELSE resize_binary_mask(input_mask, image_size)

\* C8: create_annotation_info returns None exactly when the mask it encodes
\* (after the resize, if any) has no foreground pixel, or the category is not
\* crowd and the polygon list is empty.
C8_NoneExactly ==
    pc = "info_done" =>
        /\ binary_mask = Encoded
        /\ (annotation_info = None) <=>
              \/ Cardinality(binary_mask.fg) < 1
              \/ /\ ~CrowdFlag(category_info)
                 /\ binary_mask_to_polygon(binary_mask, tolerance) = << >>
        /\ annotation_info # None => annotation_info.area = Cardinality(binary_mask.fg)

\* the input has foreground, the resized mask has none, and no record is returned
C8_Witness ==
    /\ pc = "info_done"
    /\ image_size # NotGiven
    /\ input_mask.fg # {}
    /\ binary_mask.fg = {}
    /\ annotation_info = None

\* the crowd flag and the segmentation of a record agree with the category
Agrees(info, category, m) ==
    IF CrowdFlag(category)
    THEN /\ info.iscrowd = 1
         /\ info.segmentation.type = "dict"
         /\ info.segmentation.value.size = m.shape
         /\ Decode(info.segmentation.value) = m
    ELSE /\ info.iscrowd = 0
         /\ info.segmentation.type = "list"
         /\ info.segmentation.value # << >>

\* C10: a record create_annotation_info returns has crowd flag 1 and the RLE
\* record of the encoded mask as segmentation when the category is crowd, and
\* crowd flag 0 and a non-empty polygon list otherwise; every record in the
\* list of create_annotation_infos has crowd flag 0 and a polygon list.
C10_CrowdAgrees ==
    /\ (pc = "info_done" /\ annotation_info # None) =>
           Agrees(annotation_info, category_info, binary_mask)
    /\ \A i \in 1 .. Len(annotation_infos) :
           annotation_infos[i] # None =>
               /\ annotation_infos[i].iscrowd = 0
               /\ annotation_infos[i].segmentation.type = "list"
               /\ annotation_infos[i].segmentation.value # << >>

\* a crowd record after a resize
C10_Witness ==
    /\ pc = "info_done"
    /\ CrowdFlag(category_info)
    /\ image_size # NotGiven
    /\ annotation_info # None
    /\ annotation_info.iscrowd = 1
    /\ Len(annotation_info.segmentation.value.counts) >= 3

\* a call of create_annotation_infos with a true is_crowd is at its start or
\* has raised, and nothing was resized, labelled or built
C4_NothingBuilt ==
    (pc \in {"infos_call", "infos_raised", "infos_label", "infos_annotate", "infos_done"}
         /\ CrowdFlag(category_info)) =>
        /\ pc \in {"infos_call", "infos_raised"}
        /\ pc = "infos_raised" => error = "NotImplementedError"
        /\ binary_mask = input_mask
        /\ binary_masks = << >>
        /\ annotation_infos = << >>
        /\ annotation_info = None

\* C4: create_annotation_infos with a true is_crowd raises the "not
\* supported" error as its first step and never resizes, labels or builds
\* an annotation.
C4_CrowdRejected ==
    /\ []C4_NothingBuilt
    /\ [][(pc = "infos_call" /\ CrowdFlag(category_info)) =>
              (pc' = "infos_raised" /\ error' = "NotImplementedError")]_vars

C4_Witness ==
    /\ pc = "infos_raised"
    /\ error = "NotImplementedError"
    /\ image_size # NotGiven
    /\ image_size # <<Width(input_mask), Height(input_mask)>>
    /\ Cardinality(input_mask.fg) >= 2

\* C2 as claimed: the per-region masks of create_annotation_infos have the
\* foreground of the decomposed mask as their union and no two of them share
\* a foreground pixel.
C2_Decomposition ==
    (pc \in {"infos_annotate", "infos_done"} /\ Len(binary_masks) >= 2) =>
        /\ UNION { binary_masks[i].fg : i \in 1 .. Len(binary_masks) } = binary_mask.fg
        /\ \A i, j \in 1 .. Len(binary_masks) :
               i # j => binary_masks[i].fg \cap binary_masks[j].fg = {}

\* C3 as claimed: the list create_annotation_infos returns holds records
\* only, their ids increase strictly, and the id start_annotation_id + k is
\* among them exactly when the k-th region yields a record.
C3_Omitted ==
    pc = "infos_done" =>
        /\ \A i \in 1 .. Len(annotation_infos) : annotation_infos[i] # None
        /\ \A i, j \in 1 .. Len(annotation_infos) :
               (i < j /\ annotation_infos[i] # None /\ annotation_infos[j] # None)
                   => annotation_infos[i].id < annotation_infos[j].id
        /\ \A k \in 0 .. Len(binary_masks) - 1 :
               (\E i \in 1 .. Len(annotation_infos) :
                    annotation_infos[i] # None
                        /\ annotation_infos[i].id = start_annotation_id + k)
               <=> (create_annotation_info(start_annotation_id + k, image_id,
                        category_info, binary_masks[k + 1], image_size, tolerance,
                        NotGiven) # None)

====
